---- MODULE Spec2Model ----
(***************************************************************************)
(* The component-import pipeline of Priority-CMS: the Registry Store       *)
(* (src/lib/component-registry.ts), the Acquirer                           *)
(* (src/tools/import-components.ts), the Import Orchestrator               *)
(* (src/tools/import-and-register.ts) and the command surface              *)
(* (src/tools/cli.ts).                                                     *)
(*                                                                         *)
(* A JavaScript string is a sequence of tokens: a token is one character   *)
(* where the code looks at characters (identifiers, paths, names) and an   *)
(* opaque chunk for the fixed literals the code only compares as a whole   *)
(* ('shadcn', 'component', 'UnknownComponent').                            *)
(***************************************************************************)
EXTENDS Naturals, Sequences, FiniteSets, TLC

(***************************************************************************)
(* Bounds of the model.                                                    *)
(***************************************************************************)
\* identifiers handed to the import commands over one behaviour
MaxImports == 3
\* direct calls of the Registry Store over one behaviour
MaxCalls == 3
\* last instant of the wall clock
MaxTime == 1
\* declared properties of a component handed to the Schema Generator
MaxProps == 2
\* characters of a generated property name
MaxNameLen == 3
\* top-level declarations of a source file handed to the Source Analyzer
MaxDecls == 2

(***************************************************************************)
(* Strings.                                                                *)
(***************************************************************************)
LowerLetters ==
    <<"a", "b", "c", "d", "e", "f", "g", "h", "i", "j", "k", "l", "m",
      "n", "o", "p", "q", "r", "s", "t", "u", "v", "w", "x", "y", "z">>
UpperLetters ==
    <<"A", "B", "C", "D", "E", "F", "G", "H", "I", "J", "K", "L", "M",
      "N", "O", "P", "Q", "R", "S", "T", "U", "V", "W", "X", "Y", "Z">>

\* [a-zA-Z]
IsLetter(c) ==
    \E k \in 1..Len(LowerLetters) : c = LowerLetters[k] \/ c = UpperLetters[k]

\* String.prototype.toUpperCase on one character
toUpperCase(c) ==
    IF \E k \in 1..Len(LowerLetters) : c = LowerLetters[k]
    THEN UpperLetters[CHOOSE k \in 1..Len(LowerLetters) : c = LowerLetters[k]]
    ELSE c

\* String.prototype.toLowerCase on one character
toLowerCaseChar(c) ==
    IF \E k \in 1..Len(UpperLetters) : c = UpperLetters[k]
    THEN LowerLetters[CHOOSE k \in 1..Len(UpperLetters) : c = UpperLetters[k]]
    ELSE c

toLowerCase(s) == [k \in 1..Len(s) |-> toLowerCaseChar(s[k])]

\* s.charAt(0).toUpperCase() + s.slice(1)
Capitalize(s) ==
    IF s = <<>> THEN <<>> ELSE <<toUpperCase(s[1])>> \o Tail(s)

\* s.replace(/[^a-zA-Z]/g, '')
StripNonLetters(s) == SelectSeq(s, IsLetter)

\* the last element of s.split(sep)
LastPart(s, sep) ==
    IF \E k \in 1..Len(s) : s[k] = sep
    THEN LET last == CHOOSE k \in 1..Len(s) :
                        /\ s[k] = sep
                        /\ \A j \in (k + 1)..Len(s) : s[j] # sep
         IN  SubSeq(s, last + 1, Len(s))
    ELSE s

\* path.extname of a base name: from its last '.' on, '' when it has none
\* or when the only '.' is its first character
extname(base) ==
    IF \E k \in 2..Len(base) : base[k] = "."
    THEN LET last == CHOOSE k \in 2..Len(base) :
                        /\ base[k] = "."
                        /\ \A j \in (k + 1)..Len(base) : base[j] # "."
         IN  SubSeq(base, last, Len(base))
    ELSE <<>>

\* path.basename(filePath, path.extname(filePath))
basenameNoExt(filePath) ==
    LET base == LastPart(filePath, "/")
        ext  == extname(base)
    IN  SubSeq(base, 1, Len(base) - Len(ext))

\* the value undefined (as a Map key, as a property value)
Undefined == <<"#undefined">>
UnknownComponent == <<"UnknownComponent">>
ShadcnTag == <<"shadcn">>
ComponentTag == <<"component">>

(***************************************************************************)
(* Naming conventions.                                                     *)
(***************************************************************************)
\* the name isComponentRegistered looks up: the last path segment with
\* the non-letters stripped, first letter capitalised
RegisteredNameOf(url) == Capitalize(StripNonLetters(LastPart(url, "/")))

extractComponentNameFromUrl(url) ==
    IF LastPart(url, "/") # <<>>
    THEN Capitalize(StripNonLetters(LastPart(url, "/")))
    ELSE UnknownComponent

(***************************************************************************)
(* The Acquirer.  What the external tool prints is one of three shapes:    *)
(*   "added": a line 'Added <word> component to <path>',                   *)
(*   "to":    a line holding 'to <path>' and no 'Added <word> component',  *)
(*   "none":  no 'to <path>' at all.                                       *)
(***************************************************************************)
NoOutput == [kind |-> "none", word |-> <<>>, path |-> <<>>]

extractComponentName(output) ==
    IF output.kind = "added"
    THEN output.word
    ELSE IF output.kind = "to" /\ output.path # <<>>
    THEN Capitalize(basenameNoExt(output.path))
    ELSE UnknownComponent

extractComponentPath(output) ==
    IF output.kind \in {"added", "to"} /\ output.path # <<>>
    THEN output.path
    ELSE <<>>

\* thrown: execSync raised (the tool exited non-zero or could not be run)
importComponent(url, thrown, output) ==
    IF thrown
    THEN [componentName |-> extractComponentNameFromUrl(url),
          success |-> FALSE, path |-> Undefined]
    ELSE [componentName |-> extractComponentName(output),
          success |-> TRUE, path |-> extractComponentPath(output)]

NoImportResult == [componentName |-> <<>>, success |-> FALSE, path |-> Undefined]

(***************************************************************************)
(* The Registry Store.  A Map is the sequence of its [key, val] items in   *)
(* insertion order.  A value is a JavaScript object: a record of its own   *)
(* properties.                                                             *)
(***************************************************************************)
\* reading property f of a value (undefined when it has no such property)
FieldOf(v, f) == IF f \in DOMAIN v THEN v[f] ELSE Undefined

MapHas(m, k) == \E i \in 1..Len(m) : m[i].key = k

MapGet(m, k) ==
    IF MapHas(m, k)
    THEN m[CHOOSE i \in 1..Len(m) : m[i].key = k].val
    ELSE [json |-> "undefined"]

\* a bug: items are pushed to a list with no look-up of the key
MapSetAppend(m, k, v) == Append(m, [key |-> k, val |-> v])

\* Map.prototype.set: an existing key keeps its place, a new key goes last
MapSet(m, k, v) ==
    IF MapHas(m, k)
    THEN [i \in 1..Len(m) |-> IF m[i].key = k THEN [key |-> k, val |-> v] ELSE m[i]]
    ELSE Append(m, [key |-> k, val |-> v])

\* a bug: components.clear() in place of components.delete(name)
MapDeleteAll(m, k) == IF MapHas(m, k) THEN <<>> ELSE m

MapDelete(m, k) ==
    LET keep(i) == m[i].key # k
        F[n \in 0..Len(m)] ==
            IF n = 0 THEN <<>>
            ELSE IF keep(n) THEN Append(F[n - 1], m[n]) ELSE F[n - 1]
    IN  F[Len(m)]

\* Array.from(this.components.values())
MapValues(m) == [i \in 1..Len(m) |-> m[i].val]

\* new Date().toISOString() at instant t
ToISOString(t) == <<"iso", t>>

\* a bug: the supplied tags are stored as they are
NewEntryNoProvenance(name, componentPath, templateId, tags, t) ==
    [name |-> name, path |-> componentPath, importedAt |-> ToISOString(t),
     templateId |-> templateId, tags |-> tags]

\* the object registerComponent stores
NewEntry(name, componentPath, templateId, tags, t) ==
    [name |-> name, path |-> componentPath, importedAt |-> ToISOString(t),
     templateId |-> templateId, tags |-> tags \o <<ShadcnTag>>]

\* this.components.set(name, {...}) of registerComponent
registerComponent(m, name, componentPath, templateId, tags, t) ==
    MapSet(m, name, NewEntry(name, componentPath, templateId, tags, t))

\* a bug: the optional property is never written
StringifyValueNoTemplateId(v) ==
    IF "json" \in DOMAIN v THEN v
    ELSE [f \in {g \in DOMAIN v : g # "templateId"} |-> v[f]]

\* JSON.stringify of one value: a property whose value is undefined is
\* left out (templateId is the one property of an entry that is optional);
\* a primitive is written as it is
StringifyValue(v) ==
    IF "json" \in DOMAIN v THEN v
    ELSE [f \in {g \in DOMAIN v : g # "templateId" \/ v[g] # Undefined} |-> v[f]]

\* JSON.stringify(Array.from(this.components.values()), null, 2)
\* a bug: the first entry of the mapping is left out of the array
StringifyRegistryFromSecond(m) ==
    [kind |-> "array", elems |-> [i \in 1..(Len(m) - 1) |-> StringifyValue(m[i + 1].val)]]

StringifyRegistry(m) ==
    [kind |-> "array", elems |-> [i \in 1..Len(m) |-> StringifyValue(m[i].val)]]

AbsentFile == [kind |-> "absent", elems |-> <<>>]
\* content JSON.parse rejects (also what a torn write leaves)
MalformedFile == [kind |-> "malformed", elems |-> <<>>]
\* a file that exists and readFileSync cannot read
UnreadableFile == [kind |-> "unreadable", elems |-> <<>>]
\* valid JSON that is not iterable (an object, a number)
NotIterableFile == [kind |-> "notiterable", elems |-> <<>>]
JsonNull == [json |-> "null"]
JsonNumber == [json |-> "number"]

\* the body of the for...of loop of loadRegistry over the parsed array:
\* reading .name of null throws and ends the loop with what was set so far
RECURSIVE LoadElems(_, _)
LoadElems(m, elems) ==
    IF elems = <<>> THEN m
    ELSE IF Head(elems) = JsonNull THEN m
    ELSE LoadElems(MapSet(m, FieldOf(Head(elems), "name"), Head(elems)), Tail(elems))

\* loadRegistry on a freshly constructed store (components is empty)
loadRegistry(f) ==
    IF f.kind = "array" THEN LoadElems(<<>>, f.elems) ELSE <<>>

\* the names of the entries a store would read from the backing file
NamesIn(f) == {loadRegistry(f)[i].key : i \in 1..Len(loadRegistry(f))}

\* a bug: the file is read again and the mapping merged into what it holds
saveRegistryMerge(m, f, outcome) ==
    LET F[n \in 0..Len(m)] ==
            IF n = 0 THEN loadRegistry(f) ELSE MapSet(F[n - 1], m[n].key, m[n].val)
    IN  IF outcome = "ok" THEN StringifyRegistry(F[Len(m)])
        ELSE IF outcome = "torn" THEN MalformedFile
        ELSE f

\* the backing file after saveRegistry: writeFileSync either replaces the
\* content ("ok"), fails before touching the file ("fail": mkdirSync or the
\* open fails), or fails after truncating it ("torn")
saveRegistry(m, f, outcome) ==
    IF outcome = "ok" THEN StringifyRegistry(m)
    ELSE IF outcome = "torn" THEN MalformedFile
    ELSE f

WriteOutcomes == {"ok", "fail", "torn"}

(***************************************************************************)
(* The Schema Generator.                                                   *)
(***************************************************************************)
\* s.includes(sub)
includes(s, sub) ==
    \E k \in 1..(Len(s) - Len(sub) + 1) : SubSeq(s, k, k + Len(sub) - 1) = sub

\* s.split(c)[0]: what precedes the first c, all of s when it has none
SplitFirst(s, c) ==
    IF \E k \in 1..Len(s) : s[k] = c
    THEN SubSeq(s, 1, (CHOOSE k \in 1..Len(s) :
                          s[k] = c /\ \A j \in 1..(k - 1) : s[j] # c) - 1)
    ELSE s

\* s.trim()
trim(s) ==
    IF \A k \in 1..Len(s) : s[k] = " " THEN <<>>
    ELSE LET inked == {k \in 1..Len(s) : s[k] # " "}
             first == CHOOSE k \in inked : \A j \in inked : k <= j
             last == CHOOSE k \in inked : \A j \in inked : j <= k
         IN  SubSeq(s, first, last)

\* the typeMap object literal of mapPropTypeToFieldType
typeMap ==
    <<[key |-> <<"s", "t", "r", "i", "n", "g">>,
        val |-> "Text"],
       [key |-> <<"n", "u", "m", "b", "e", "r">>,
        val |-> "Number"],
       [key |-> <<"b", "o", "o", "l", "e", "a", "n">>,
        val |-> "Boolean"],
       [key |-> <<"D", "a", "t", "e">>,
        val |-> "Date"],
       [key |-> <<"R", "e", "a", "c", "t", "N", "o", "d", "e">>,
        val |-> "RichText"],
       [key |-> <<"R", "e", "a", "c", "t", "E", "l", "e", "m", "e", "n", "t">>,
        val |-> "RichText"],
       [key |-> <<"J", "S", "X", ".", "E", "l", "e", "m", "e", "n", "t">>,
        val |-> "RichText"],
       [key |-> <<"R", "e", "a", "c", "t", ".", "R", "e", "a", "c", "t", "N", "o", "d", "e">>,
        val |-> "RichText"],
       [key |-> <<"R", "e", "a", "c", "t", ".", "R", "e", "a", "c", "t", "E", "l", "e", "m", "e", "n", "t">>,
        val |-> "RichText"],
       [key |-> <<"R", "e", "a", "c", "t", ".", "J", "S", "X", ".", "E", "l", "e", "m", "e", "n", "t">>,
        val |-> "RichText"],
       [key |-> <<"s", "t", "r", "i", "n", "g", "[", "]">>,
        val |-> "MultiSelect"],
       [key |-> <<"A", "r", "r", "a", "y", "<", "s", "t", "r", "i", "n", "g", ">">>,
        val |-> "MultiSelect"],
       [key |-> <<"R", "e", "c", "o", "r", "d", "<", "s", "t", "r", "i", "n", "g", ",", " ", "a", "n", "y", ">">>,
        val |-> "JSON"],
       [key |-> <<"o", "b", "j", "e", "c", "t">>,
        val |-> "JSON"],
       [key |-> <<"a", "n", "y">>,
        val |-> "Text"]>>

ImageHints == {<<"i", "m", "a", "g", "e">>, <<"i", "m", "g">>, <<"p", "i", "c", "t", "u", "r", "e">>}
UrlHints == {<<"u", "r", "l">>, <<"l", "i", "n", "k">>, <<"h", "r", "e", "f">>}

\* mapPropTypeToFieldType: the field type of a property, from the text of
\* its declared type
mapPropTypeToFieldType(propType) ==
    LET baseType == trim(SplitFirst(SplitFirst(propType, "<"), "|"))
        lower == toLowerCase(baseType)
    IN  IF \E h \in ImageHints : includes(lower, h) THEN "Image"
        ELSE IF \E h \in UrlHints : includes(lower, h) THEN "URL"
        ELSE IF \E k \in 1..Len(typeMap) : typeMap[k].key = baseType
        THEN typeMap[CHOOSE k \in 1..Len(typeMap) : typeMap[k].key = baseType].val
        ELSE "Text"

\* [A-Z]
IsUpper(c) == \E k \in 1..Len(UpperLetters) : c = UpperLetters[k]

\* name.replace(/([A-Z])/g, ' $1')
SpaceBeforeCapitals(name) ==
    LET F[n \in 0..Len(name)] ==
            IF n = 0 THEN <<>>
            ELSE IF IsUpper(name[n]) THEN F[n - 1] \o <<" ", name[n]>>
            ELSE Append(F[n - 1], name[n])
    IN  F[Len(name)]

\* a bug: the first character is left as it is
formatPropNameNoCapital(name) == trim(SpaceBeforeCapitals(name))

\* formatPropName: the display form of a property name
formatPropName(name) == trim(Capitalize(SpaceBeforeCapitals(name)))

(***************************************************************************)
(* The Source Analyzer.  A source file is the sequence of its top-level    *)
(* declarations; a declaration is a record                                 *)
(*   [kind, name, doc, members, fn, param]                                 *)
(* with kind "interface", "alias", "function" or "variable", members the   *)
(* members of an interface or of an alias of an object type, fn whether a  *)
(* variable is bound to an arrow function or function expression, and      *)
(* param the first parameter of a function: [kind, members, typeName]      *)
(* with kind "none" (no parameter), "untyped", "literal" (an inline object *)
(* type) or "ref" (a type name).                                           *)
(***************************************************************************)
PropsSuffix == <<"P", "r", "o", "p", "s">>

\* s.endsWith(suf)
endsWith(s, suf) ==
    Len(s) >= Len(suf) /\ SubSeq(s, Len(s) - Len(suf) + 1, Len(s)) = suf

\* s.replace(sub, ''): the first occurrence of sub is removed
replaceFirst(s, sub) ==
    IF includes(s, sub)
    THEN LET at == CHOOSE k \in 1..(Len(s) - Len(sub) + 1) :
                     /\ SubSeq(s, k, k + Len(sub) - 1) = sub
                     /\ \A j \in 1..(k - 1) : SubSeq(s, j, j + Len(sub) - 1) # sub
         IN  SubSeq(s, 1, at - 1) \o SubSeq(s, at + Len(sub), Len(s))
    ELSE s

\* the ComponentProp objects pushed for the members of a declaration: one
\* per property signature (a method signature is skipped), its type 'any'
\* when the member has no annotation, its description the member's JSDoc
\* where the code reads it
MemberProps(members, withDoc) ==
    LET F[n \in 0..Len(members)] ==
            IF n = 0 THEN <<>>
            ELSE IF members[n].sig = "property"
            THEN Append(F[n - 1],
                   [name |-> members[n].name,
                    type |-> IF members[n].type = Undefined
                             THEN <<"a", "n", "y">> ELSE members[n].type,
                    required |-> ~members[n].question,
                    description |-> IF withDoc THEN members[n].doc ELSE Undefined])
            ELSE F[n - 1]
    IN  F[Len(members)]

\* the first forEachChild of extractComponentInfo: every interface whose
\* name includes 'Props'
ShapePass(decls, analysis) ==
    LET F[n \in 0..Len(decls)] ==
            IF n = 0 THEN analysis
            ELSE LET d == decls[n]
                     a == F[n - 1]
                     componentName == replaceFirst(d.name, PropsSuffix)
                 IN  IF d.kind = "interface" /\ includes(d.name, PropsSuffix)
                     THEN [a EXCEPT
                             !.name = IF endsWith(d.name, PropsSuffix) /\ componentName # <<>>
                                      THEN componentName ELSE @,
                             !.description = IF d.doc # Undefined /\ d.doc # <<>>
                                             THEN d.doc ELSE @,
                             !.props = @ \o MemberProps(d.members, TRUE)]
                     ELSE a
    IN  F[Len(decls)]

\* the members the function branch reads for a parameter of type typeName:
\* those of every interface named typeName.replace('Props', '')
RefPropsOfFunction(decls, typeName) ==
    LET F[n \in 0..Len(decls)] ==
            IF n = 0 THEN <<>>
            ELSE IF decls[n].kind = "interface"
                    /\ decls[n].name = replaceFirst(typeName, PropsSuffix)
            THEN F[n - 1] \o MemberProps(decls[n].members, TRUE)
            ELSE F[n - 1]
    IN  F[Len(decls)]

\* the members the variable branch reads for a parameter of type typeName:
\* an interface or alias of that name is matched, the members of an
\* interface are read
RefPropsOfVariable(decls, typeName) ==
    LET F[n \in 0..Len(decls)] ==
            IF n = 0 THEN <<>>
            ELSE IF decls[n].kind \in {"interface", "alias"} /\ decls[n].name = typeName
            THEN IF decls[n].kind = "interface"
                 THEN F[n - 1] \o MemberProps(decls[n].members, TRUE)
                 ELSE F[n - 1]
            ELSE F[n - 1]
    IN  F[Len(decls)]

\* extractFunctionComponentProps on one top-level node
extractFunctionComponentProps(d, decls, analysis) ==
    IF (d.kind = "function" /\ d.name # Undefined) \/ (d.kind = "variable" /\ d.fn)
    THEN [analysis EXCEPT
            !.name = d.name,
            !.description = IF d.doc # Undefined /\ d.doc # <<>> THEN d.doc ELSE @,
            !.props = @ \o
                (IF d.param.kind = "literal" THEN MemberProps(d.param.members, FALSE)
                 ELSE IF d.param.kind = "ref"
                 THEN IF d.kind = "function"
                      THEN RefPropsOfFunction(decls, d.param.typeName)
                      ELSE RefPropsOfVariable(decls, d.param.typeName)
                 ELSE <<>>)]
    ELSE analysis

\* the second forEachChild of extractComponentInfo
FunctionPass(decls, analysis) ==
    LET F[n \in 0..Len(decls)] ==
            IF n = 0 THEN analysis
            ELSE IF decls[n].kind \in {"function", "variable"}
            THEN extractFunctionComponentProps(decls[n], decls, F[n - 1])
            ELSE F[n - 1]
    IN  F[Len(decls)]

extractComponentInfo(decls, analysis) ==
    LET shaped == ShapePass(decls, analysis)
    IN  IF Len(shaped.props) = 0 THEN FunctionPass(decls, shaped) ELSE shaped

\* checkForChildren; jsxChildren: some JSX element's text has '{children}'
checkForChildren(jsxChildren, analysis) ==
    [analysis EXCEPT !.hasChildren =
        \/ \E i \in 1..Len(analysis.props) :
              \/ analysis.props[i].name = <<"c", "h", "i", "l", "d", "r", "e", "n">>
              \/ includes(analysis.props[i].type, <<"R", "e", "a", "c", "t", "N", "o", "d", "e">>)
              \/ includes(analysis.props[i].type, <<"R", "e", "a", "c", "t", "E", "l", "e", "m", "e", "n", "t">>)
        \/ jsxChildren]

\* analyzeComponent on a readable file [path, decls, jsxChildren]
analyzeComponent(f) ==
    checkForChildren(f.jsxChildren,
        extractComponentInfo(f.decls,
            [name |-> basenameNoExt(f.path), props |-> <<>>, hasChildren |-> FALSE,
             description |-> <<>>]))

(***************************************************************************)
(* The Schema Generator, as far as the orchestrator reads its result.      *)
(***************************************************************************)
\* name of analyzeComponent's result: the base name of the file, replaced
\* by the prefix of a '...Props' interface when the file declares one
AnalysisName(filePath, propsPrefix) ==
    IF propsPrefix # <<>> THEN propsPrefix ELSE basenameNoExt(filePath)

\* a bug: the generated tags lack 'shadcn'
TemplateTagsNoProvenance(componentName) ==
    <<ComponentTag, toLowerCase(componentName)>>

\* tags: ['component', 'shadcn', component.name.toLowerCase()]
TemplateTags(componentName) ==
    <<ComponentTag, ShadcnTag, toLowerCase(componentName)>>

SearchableNames == {<<"t", "i", "t", "l", "e">>, <<"h", "e", "a", "d", "i", "n", "g">>, <<"t", "e", "x", "t">>}

\* a bug: every Text field is searchable
PropFieldSearchableText(component, prop, index) ==
    [id |-> prop.name,
     name |-> formatPropName(prop.name),
     description |->
        IF prop.description # Undefined /\ prop.description # <<>>
        THEN prop.description
        ELSE formatPropName(prop.name) \o <<" for the ">> \o component.name
                \o <<" component">>,
     type |-> mapPropTypeToFieldType(prop.type),
     validation |-> [required |-> prop.required],
     is_searchable |-> mapPropTypeToFieldType(prop.type) = "Text",
     order |-> index]

\* a bug: order counts from one
PropFieldOrderFromOne(component, prop, index) ==
    [id |-> prop.name,
     name |-> formatPropName(prop.name),
     description |->
        IF prop.description # Undefined /\ prop.description # <<>>
        THEN prop.description
        ELSE formatPropName(prop.name) \o <<" for the ">> \o component.name
                \o <<" component">>,
     type |-> mapPropTypeToFieldType(prop.type),
     validation |-> [required |-> prop.required],
     is_searchable |-> prop.name \in SearchableNames,
     order |-> index + 1]

\* the field generateTemplate makes of the property at a zero-based index
PropField(component, prop, index) ==
    [id |-> prop.name,
     name |-> formatPropName(prop.name),
     description |->
        IF prop.description # Undefined /\ prop.description # <<>>
        THEN prop.description
        ELSE formatPropName(prop.name) \o <<" for the ">> \o component.name
                \o <<" component">>,
     type |-> mapPropTypeToFieldType(prop.type),
     validation |-> [required |-> prop.required],
     is_searchable |-> prop.name \in SearchableNames,
     order |-> index]

\* a bug: the content field takes the required flag of a declared field
ContentFieldRequired(component, order) ==
    [id |-> <<"c", "o", "n", "t", "e", "n", "t">>,
     name |-> <<"C", "o", "n", "t", "e", "n", "t">>,
     description |-> <<"Content for the ">> \o component.name \o <<" component">>,
     type |-> "RichText",
     validation |-> [required |-> TRUE],
     is_searchable |-> TRUE,
     order |-> order]

\* the field generateTemplate pushes when the component accepts children
ContentField(component, order) ==
    [id |-> <<"c", "o", "n", "t", "e", "n", "t">>,
     name |-> <<"C", "o", "n", "t", "e", "n", "t">>,
     description |-> <<"Content for the ">> \o component.name \o <<" component">>,
     type |-> "RichText",
     validation |-> [required |-> FALSE],
     is_searchable |-> TRUE,
     order |-> order]

\* the fields array of generateTemplate
TemplateFieldsOf(component) ==
    LET mapped == [i \in 1..Len(component.props) |->
                      PropField(component, component.props[i], i - 1)]
    IN  IF component.hasChildren
        THEN Append(mapped, ContentField(component, Len(mapped)))
        ELSE mapped

generateTemplate(component) ==
    [name |-> component.name \o <<" Template">>,
     description |->
        IF component.description # Undefined /\ component.description # <<>>
        THEN component.description
        ELSE <<"Template for the ">> \o component.name \o <<" component">>,
     type |-> "Component",
     sections |-> << [id |-> "main", name |-> "Main",
                      description |-> <<"Main section for ">> \o component.name,
                      fields |-> TemplateFieldsOf(component),
                      is_repeatable |-> FALSE, order |-> 0] >>,
     status |-> "Published",
     is_default |-> FALSE,
     tags |-> TemplateTags(component.name)]

(***************************************************************************)
(* The inputs of the model.                                                *)
(***************************************************************************)
Procs == {1, 2}

UrlHi1 == <<"a", "/", "h", "i", "1">>
UrlCta == <<"c", "t", "a">>
Urls == {UrlHi1, UrlCta}

\* the file the external tool writes for an identifier
PathOf(url) == <<"s", "/">> \o LastPart(url, "/") \o <<".", "x">>

\* what the external tool may print for an identifier
OutputsOf(url) ==
    { [kind |-> "added", word |-> RegisteredNameOf(url), path |-> PathOf(url)],
      [kind |-> "added", word |-> RegisteredNameOf(url), path |-> <<>>],
      [kind |-> "to", word |-> <<>>, path |-> PathOf(url)],
      NoOutput }

\* the prefix of the '...Props' interface the acquired file declares
\* (<<>>: it declares none)
PropsPrefixOf(filePath) ==
    IF filePath = PathOf(UrlHi1) THEN <<"H", "i">> ELSE <<>>

TemplateIdOf(n) == <<"tpl", n>>

\* entries written to the backing file by earlier runs
OldHi == [name |-> <<"H", "i">>, path |-> PathOf(UrlHi1),
          importedAt |-> ToISOString(0), templateId |-> TemplateIdOf(0),
          tags |-> <<ShadcnTag>>]
OldHiNoId == [name |-> <<"H", "i">>, path |-> <<"s", "/", "h", "i", ".", "x">>,
              importedAt |-> ToISOString(0), tags |-> <<ShadcnTag>>]
OldCta == [name |-> <<"C", "t", "a">>, path |-> PathOf(UrlCta),
           importedAt |-> ToISOString(0), templateId |-> TemplateIdOf(0),
           tags |-> <<ShadcnTag>>]

ArrayFile(elems) == [kind |-> "array", elems |-> elems]

\* what it may hold when the first import command starts
ImportInitFiles == {AbsentFile, ArrayFile(<<OldHi>>)}

\* what the backing file may hold when the first process starts
InitFiles ==
    { AbsentFile, MalformedFile, NotIterableFile, UnreadableFile,
      ArrayFile(<<OldHi>>),
      ArrayFile(<<OldHi, OldHiNoId>>),
      ArrayFile(<<OldCta, JsonNull, OldHi>>),
      ArrayFile(<<JsonNumber>>) }

\* arguments of direct calls of registerComponent by a host program
RegisterArgs ==
    { [name |-> <<"H", "i">>, path |-> PathOf(UrlHi1),
       templateId |-> Undefined, tags |-> <<>>],
      [name |-> <<"H", "i">>, path |-> <<"s", "/", "h", "i", ".", "x">>,
       templateId |-> TemplateIdOf(0), tags |-> <<ComponentTag>>],
      [name |-> <<"C", "t", "a">>, path |-> PathOf(UrlCta),
       templateId |-> TemplateIdOf(0), tags |-> <<>>],
      [name |-> <<"S">>, path |-> <<"s", ".", "x">>,
       templateId |-> Undefined, tags |-> <<ComponentTag>>] }

RegNames == {a.name : a \in RegisterArgs}

\* identifier lists of an import-bulk run
RECURSIVE SeqsOf(_, _)
SeqsOf(S, n) ==
    IF n = 0 THEN {<<>>}
    ELSE LET shorter == SeqsOf(S, n - 1)
         IN  shorter \cup {Append(q, x) : q \in {r \in shorter : Len(r) = n - 1}, x \in S}

UrlLists == SeqsOf(Urls, MaxImports)

\* properties a Source Analyzer result may declare
GenProps ==
    { [name |-> <<"h", "e", "r", "o", "I", "m", "a", "g", "e">>,
       type |-> <<"s", "t", "r", "i", "n", "g">>,
       required |-> TRUE, description |-> Undefined],
      [name |-> <<"c", "t", "a", "L", "i", "n", "k">>,
       type |-> <<"s", "t", "r", "i", "n", "g">>,
       required |-> FALSE, description |-> Undefined],
      [name |-> <<"t", "i", "t", "l", "e">>,
       type |-> <<"s", "t", "r", "i", "n", "g">>,
       required |-> TRUE, description |-> <<"d">>],
      [name |-> <<"c", "o", "n", "t", "e", "n", "t">>,
       type |-> <<"s", "t", "r", "i", "n", "g">>,
       required |-> FALSE, description |-> Undefined],
      [name |-> <<"i", "t", "e", "m", "s">>,
       type |-> <<"A", "r", "r", "a", "y", "<", "s", "t", "r", "i", "n", "g", ">">>,
       required |-> FALSE, description |-> Undefined],
      [name |-> <<"l", "o", "g", "o">>,
       type |-> <<"I", "m", "a", "g", "e", "S", "o", "u", "r", "c", "e">>,
       required |-> TRUE, description |-> Undefined],
      [name |-> <<"c", "h", "i", "l", "d", "r", "e", "n">>,
       type |-> <<"R", "e", "a", "c", "t", ".", "R", "e", "a", "c", "t", "N", "o", "d", "e">>,
       required |-> FALSE, description |-> Undefined],
      [name |-> <<"i", "d">>,
       type |-> <<"n", "u", "m", "b", "e", "r", " ", "|", " ", "u", "n", "d", "e", "f", "i", "n", "e", "d">>,
       required |-> FALSE, description |-> Undefined],
      [name |-> <<"t", "e", "x", "t">>,
       type |-> <<"s", "t", "r", "i", "n", "g", " ", "|", " ", "u", "n", "d", "e", "f", "i", "n", "e", "d">>,
       required |-> FALSE, description |-> Undefined],
      [name |-> <<"h", "e", "a", "d", "i", "n", "g">>,
       type |-> <<"R", "e", "a", "c", "t", ".", "R", "e", "a", "c", "t", "N", "o", "d", "e">>,
       required |-> TRUE, description |-> Undefined] }

HeroName == <<"H", "e", "r", "o">>

\* the ComponentAnalysis values handed to generateTemplate
GenComponents ==
    { [name |-> HeroName, props |-> ps, hasChildren |-> h, description |-> Undefined] :
        ps \in SeqsOf(GenProps, MaxProps), h \in BOOLEAN }

\* what may follow the first alternative of a declared type
UnionSuffixes == {<<>>, <<" ", "|", " ", "u", "n", "d", "e", "f", "i", "n", "e", "d">>, <<"|", "n", "u", "l", "l">>}

\* declared types that are no key of typeMap
OtherTypes ==
    { <<"F", "o", "o">>,
      <<"I", "m", "a", "g", "e", "S", "o", "u", "r", "c", "e">>,
      <<"U", "R", "L">>,
      <<"(", ")", " ", "=", ">", " ", "v", "o", "i", "d">>,
      <<"\"", "s", "m", "\"", " ", "|", " ", "\"", "l", "g", "\"">> }

\* the type texts handed to mapPropTypeToFieldType
TypeTexts ==
    {typeMap[k].key \o u : k \in 1..Len(typeMap), u \in UnionSuffixes} \cup OtherTypes

\* the characters generated property names are made of
NameAlphabet == {"a", "d", "I", "1"}

\* the property names handed to formatPropName
PropNames ==
    SeqsOf(NameAlphabet, MaxNameLen) \cup
    { <<"f", "e", "a", "t", "u", "r", "e", "d", "I", "m", "a", "g", "e">>,
      <<"i", "d">>,
      <<"h", "e", "r", "o", "I", "m", "a", "g", "e">>,
      <<"c", "t", "a", "L", "i", "n", "k">>,
      <<"t", "i", "t", "l", "e">>,
      <<"f", "e", "a", "t", "u", "r", "e", "d", "I", "m", "a", "g", "e", "U", "r", "l">>,
      <<"i", "s", "O", "K">>,
      <<"h", "1", "T", "i", "t", "l", "e">>,
      <<"T", "i", "t", "l", "e">>,
      <<"x">> }

MemberTitle ==
    [sig |-> "property", name |-> <<"t", "i", "t", "l", "e">>,
     type |-> <<"s", "t", "r", "i", "n", "g">>,
     question |-> FALSE, doc |-> <<"d">>]

MemberCta ==
    [sig |-> "property", name |-> <<"c", "t", "a">>,
     type |-> Undefined,
     question |-> TRUE, doc |-> Undefined]

MemberOnClick ==
    [sig |-> "method", name |-> <<"o", "n", "C", "l", "i", "c", "k">>,
     type |-> <<"v", "o", "i", "d">>,
     question |-> FALSE, doc |-> Undefined]

MemberRows ==
    [sig |-> "property", name |-> <<"r", "o", "w", "s">>,
     type |-> <<"n", "u", "m", "b", "e", "r">>,
     question |-> FALSE, doc |-> Undefined]

MemberSize ==
    [sig |-> "property", name |-> <<"s", "i", "z", "e">>,
     type |-> <<"s", "t", "r", "i", "n", "g">>,
     question |-> TRUE, doc |-> Undefined]

MemberLabel ==
    [sig |-> "property", name |-> <<"l", "a", "b", "e", "l">>,
     type |-> <<"R", "e", "a", "c", "t", ".", "R", "e", "a", "c", "t", "N", "o", "d", "e">>,
     question |-> FALSE, doc |-> Undefined]

NoParam == [kind |-> "none", members |-> <<>>, typeName |-> <<>>]
LiteralParam(members) == [kind |-> "literal", members |-> members, typeName |-> <<>>]
RefParam(typeName) == [kind |-> "ref", members |-> <<>>, typeName |-> typeName]

InterfaceDecl(name, members) ==
    [kind |-> "interface", name |-> name, doc |-> Undefined, members |-> members,
     fn |-> FALSE, param |-> NoParam]
AliasDecl(name, members) ==
    [kind |-> "alias", name |-> name, doc |-> Undefined, members |-> members,
     fn |-> FALSE, param |-> NoParam]
FunctionDecl(name, param) ==
    [kind |-> "function", name |-> name, doc |-> Undefined, members |-> <<>>,
     fn |-> TRUE, param |-> param]
VariableDecl(name, fn, param) ==
    [kind |-> "variable", name |-> name, doc |-> Undefined, members |-> <<>>,
     fn |-> fn, param |-> param]

NameHeroProps == <<"H", "e", "r", "o", "P", "r", "o", "p", "s">>
NamePropsTable == <<"P", "r", "o", "p", "s", "T", "a", "b", "l", "e">>
NameHeroOptions == <<"H", "e", "r", "o", "O", "p", "t", "i", "o", "n", "s">>
NameHeroArgs == <<"H", "e", "r", "o", "A", "r", "g", "s">>
NameHeroBanner == <<"H", "e", "r", "o", "B", "a", "n", "n", "e", "r">>

\* the top-level declarations a source file may have
ParseDecls ==
    { InterfaceDecl(NameHeroProps, <<MemberTitle, MemberCta>>),
      InterfaceDecl(NameHeroProps, <<MemberOnClick>>),
      InterfaceDecl(NamePropsTable, <<MemberRows>>),
      InterfaceDecl(HeroName, <<MemberSize>>),
      InterfaceDecl(NameHeroOptions, <<MemberTitle, MemberOnClick>>),
      AliasDecl(NameHeroArgs, <<MemberTitle>>),
      AliasDecl(NameHeroProps, <<MemberRows>>),
      FunctionDecl(NameHeroBanner, LiteralParam(<<MemberLabel>>)),
      FunctionDecl(HeroName, RefParam(NameHeroProps)),
      FunctionDecl(HeroName, RefParam(NameHeroOptions)),
      FunctionDecl(HeroName, NoParam),
      VariableDecl(HeroName, TRUE, RefParam(NameHeroArgs)),
      VariableDecl(HeroName, TRUE, RefParam(NameHeroOptions)),
      VariableDecl(<<"x">>, FALSE, NoParam) }

\* the source files handed to analyzeComponent
ParseFiles ==
    { [path |-> <<"s", "/", "h", "e", "r", "o", ".", "x">>, decls |-> ds,
       jsxChildren |-> j] :
        ds \in SeqsOf(ParseDecls, MaxDecls), j \in BOOLEAN }

(***************************************************************************)
(* State.                                                                  *)
(***************************************************************************)
VARIABLES
    file,        \* content of src/data/component-registry.json
    lastWriter,  \* the process whose writeFileSync last replaced it (0: none)
    inst,        \* inst[p]: ComponentRegistry.instance of process p exists
    components,  \* components[p]: the Map of process p's instance
    now,         \* the wall clock
    remote,      \* the records the template service has created, oldest first
    cmd,         \* cmd[p]: the command process p is running
    task,        \* task[p][i]: the importAndRegister call for identifier i
    results,     \* results[p]: the result slots pushed so far
    ev,          \* what the last step did and returned
    ops,         \* identifiers handed to commands, direct calls made, so far
    imported,    \* identifiers whose unforced import succeeded and was saved
    gen          \* the last call of the Source Analyzer or the Schema
                 \* Generator: its input and result

vars == <<file, lastWriter, inst, components, now, remote, cmd, task, results,
          ev, ops, imported, gen>>

IdleCmd == [op |-> "idle", urls |-> <<>>, force |-> FALSE]

PendingTask ==
    [st |-> "pending", ir |-> NoImportResult, tags |-> <<>>, tname |-> <<>>,
     fate |-> "none"]

NullResult == [null |-> TRUE, id |-> Undefined]

NoEv ==
    [op |-> "init", p |-> 0, url |-> <<>>, i |-> 0, force |-> FALSE, ok |-> FALSE,
     name |-> <<>>, write |-> "none", raised |-> FALSE, ret |-> NullResult,
     removed |-> FALSE, analyzed |-> FALSE, fate |-> "none", tally |-> 0,
     code |-> 0, first |-> FALSE, kind |-> "none", dropped |-> FALSE]

\* no call of the Schema Generator so far
NoGen == [op |-> "none"]

InitWith(files) ==
    /\ file \in files
    /\ lastWriter = 0
    /\ inst = [p \in Procs |-> FALSE]
    /\ components = [p \in Procs |-> <<>>]
    /\ now = 0
    /\ remote = <<>>
    /\ cmd = [p \in Procs |-> IdleCmd]
    /\ task = [p \in Procs |-> <<>>]
    /\ results = [p \in Procs |-> <<>>]
    /\ ev = NoEv
    /\ ops = 0
    /\ imported = {}
    /\ gen = NoGen

\* the instants new Date() may return
Clock == {t \in {now, now + 1} : t <= MaxTime}

\* ComponentRegistry.getInstance().components: the first access constructs
\* the instance, which loads the backing file
GetInstance(p) == IF inst[p] THEN components[p] ELSE loadRegistry(file)

isComponentRegistered(url, comps) ==
    IF LastPart(url, "/") = <<>> THEN FALSE
    ELSE MapHas(comps, RegisteredNameOf(url))

\* a bug: saveRegistry without its try/catch
SaveRaisesOnFailure(outcome) == outcome # "ok"

\* a bug: only the failure that truncated the file is caught
SaveRaisesWhenNotTorn(outcome) == outcome = "fail"

\* whether a failed write of saveRegistry reaches the caller: the try/catch
\* logs it and returns
SaveRaises(outcome) == FALSE

(***************************************************************************)
(* importAndRegister, step by step.  Its two awaits (the acquisition, the  *)
(* POST to the template service) are where a call is suspended.            *)
(***************************************************************************)
\* a bug: the path is not tested before the file is analyzed
AfterAcquireNoPathTest(ir, readable) ==
    IF ~ir.success THEN "acquire"
    ELSE IF ~readable THEN "analyze"
    ELSE "create"

\* the synchronous part from the acquisition's result to the POST: which
\* step ends the call ("acquire", "nopath", "analyze"), or "create" when the
\* template is posted
AfterAcquire(ir, readable) ==
    IF ~ir.success THEN "acquire"
    ELSE IF ir.path = Undefined \/ ir.path = <<>> THEN "nopath"
    ELSE IF ~readable THEN "analyze"
    ELSE "create"

\* a bug: the call goes on to the registry update whatever the POST did
AfterCreateAlwaysRegister(outcome) == "register"

\* after the POST: createTemplate returns the record and the call goes on
\* to "register", or it throws and the catch block ends the call
AfterCreate(outcome) == IF outcome = "ok" THEN "register" ELSE outcome

\* a bug: the id is made up locally (generateTemplateId) instead of read
\* from the response
LocalTemplateId(rec) == <<"shadcn-">> \o toLowerCase(rec.name) \o <<"-template">>

\* the templateId importAndRegister hands to registerComponent: the id of
\* the record createTemplate returned
RegisteredTemplateId(rec) == rec.id

\* "ok": 2xx with the record; "http": a non-2xx response; "transport": fetch
\* rejects and the service saw nothing; "lost": the service created the
\* record and the response never arrived
CreateOutcomes == {"ok", "http", "transport", "lost"}

\* a bug: the POST replaces the record the service holds for the name
createTemplateUpsert(records, rec, outcome) ==
    IF outcome \in {"ok", "lost"}
    THEN IF \E k \in 1..Len(records) : records[k].name = rec.name
         THEN [k \in 1..Len(records) |->
                 IF records[k].name = rec.name THEN rec ELSE records[k]]
         ELSE Append(records, rec)
    ELSE records

\* the records of the template service after the POST of createTemplate:
\* the service adds a record when the request reaches it
createTemplate(records, rec, outcome) ==
    IF outcome \in {"ok", "lost"} THEN Append(records, rec) ELSE records

\* a bug: the loop ends at the first call that failed
BulkNextStopAtFailure(ts) ==
    {i \in 1..Len(ts) :
        /\ ts[i].st = "pending"
        /\ \A j \in 1..(i - 1) : ts[j].st = "done" /\ ts[j].fate # "failed"}

\* a bug: every call is started at once (Promise.all over the identifiers)
BulkNextAll(ts) == {i \in 1..Len(ts) : ts[i].st = "pending"}

\* the calls of importAndRegisterBulk's loop that may start now: the first
\* one not started, once every earlier one has returned
BulkNext(ts) ==
    {i \in 1..Len(ts) : ts[i].st = "pending" /\ \A j \in 1..(i - 1) : ts[j].st = "done"}

\* what the environment did to a call, whatever the code makes of it: the
\* step it failed ("none": none so far)
EnvFate(thrown, output, readable) ==
    IF thrown THEN "acquire"
    ELSE IF output.kind = "none" \/ output.path = <<>> THEN "nopath"
    ELSE IF ~readable THEN "analyze"
    ELSE "none"

\* the same for the POST
EnvFateOfCreate(outcome) == IF outcome = "ok" THEN "ok" ELSE outcome

\* what a call's record keeps of it
FateClass(fate) == IF fate \in {"none", "ok"} THEN fate ELSE "failed"

\* results.filter(Boolean).length
Tally(rs) == Cardinality({k \in 1..Len(rs) : ~rs[k].null})

\* a bug: the command fails only when no item succeeded
ExitCodeNoneSucceeded(successful, total) ==
    IF successful = 0 /\ total > 0 THEN 1 ELSE 0

\* process.exit(1) when successful < urls.length; otherwise the handler
\* returns and the process exits with 0
ExitCode(successful, total) == IF successful < total THEN 1 ELSE 0

\* why 'import-bulk <file>' rejects its input file: it does not exist, it
\* is not JSON, it is JSON and not an array
BulkInputFaults == {"missing", "invalid", "notarray"}

\* the file is torn, or an entry is removed: the record of saved imports
\* no longer says what the catalog holds
ImportedAfter(newFile, removed, add) ==
    IF newFile = MalformedFile \/ removed THEN {} ELSE imported \cup add

(***************************************************************************)
(* The command surface.                                                    *)
(***************************************************************************)
\* 'import <url> [--force]' up to the call of importAndRegister
StartImport(p, url, force) ==
    /\ cmd[p].op = "idle"
    /\ ops < MaxImports
    /\ LET touches == LastPart(url, "/") # <<>>
           comps == IF touches THEN GetInstance(p) ELSE components[p]
           skip == isComponentRegistered(url, comps) /\ ~force
       IN  /\ inst' = [inst EXCEPT ![p] = @ \/ touches]
           /\ components' = [components EXCEPT ![p] = comps]
           /\ cmd' = [cmd EXCEPT ![p] =
                        IF skip THEN IdleCmd
                        ELSE [op |-> "import", urls |-> <<url>>, force |-> force]]
           /\ task' = [task EXCEPT ![p] = IF skip THEN <<>> ELSE <<PendingTask>>]
           /\ results' = [results EXCEPT ![p] = <<>>]
           /\ ev' = [NoEv EXCEPT !.op = IF skip THEN "skip" ELSE "start",
                                 !.p = p, !.url = url, !.force = force]
    /\ ops' = ops + 1
    /\ UNCHANGED <<file, lastWriter, now, remote, imported, gen>>

\* 'import-bulk <file>' up to the call of importAndRegisterBulk
StartBulk(p, urls) ==
    /\ cmd[p].op = "idle"
    /\ ops < MaxImports
    /\ ops + Len(urls) <= MaxImports
    /\ cmd' = [cmd EXCEPT ![p] = [op |-> "bulk", urls |-> urls, force |-> FALSE]]
    /\ task' = [task EXCEPT ![p] = [i \in 1..Len(urls) |-> PendingTask]]
    /\ results' = [results EXCEPT ![p] = <<>>]
    /\ ev' = [NoEv EXCEPT !.op = "startbulk", !.p = p]
    /\ ops' = IF urls = <<>> THEN ops + 1 ELSE ops + Len(urls)
    /\ UNCHANGED <<file, lastWriter, inst, components, now, remote, imported, gen>>

\* 'import-bulk <file>' on an input file it rejects: process.exit(1) before
\* any import
RejectBulk(p, fault) ==
    /\ cmd[p].op = "idle"
    /\ task' = [task EXCEPT ![p] = <<>>]
    /\ results' = [results EXCEPT ![p] = <<>>]
    /\ ev' = [NoEv EXCEPT !.op = "reject", !.p = p, !.kind = "bulk",
                          !.fate = fault, !.code = 1]
    /\ UNCHANGED <<file, lastWriter, inst, components, now, remote, cmd, ops,
                   imported, gen>>

\* one call of importAndRegister from its start to its first end or to the
\* POST: importComponent, the path check, analyzeComponent, generateTemplate
Acquire(p) ==
    /\ cmd[p].op # "idle"
    /\ \E i \in BulkNext(task[p]), thrown \in BOOLEAN, readable \in BOOLEAN :
         \E output \in IF thrown THEN {NoOutput} ELSE OutputsOf(cmd[p].urls[i]) :
            LET url == cmd[p].urls[i]
                ir == importComponent(url, thrown, output)
                step == AfterAcquire(ir, readable)
                fate == EnvFate(thrown, output, readable)
                analyzed == step \in {"analyze", "create"}
                cname == AnalysisName(ir.path, PropsPrefixOf(ir.path))
            IN  /\ (~analyzed => readable)
                /\ task' = [task EXCEPT ![p][i] =
                              IF step = "create"
                              THEN [st |-> "creating", ir |-> ir,
                                    tags |-> TemplateTags(cname),
                                    tname |-> cname, fate |-> FateClass(fate)]
                              ELSE [@ EXCEPT !.st = "done", !.fate = FateClass(fate)]]
                /\ results' = [results EXCEPT ![p] =
                                 IF step = "create" THEN @ ELSE Append(@, NullResult)]
                /\ ev' = [NoEv EXCEPT !.op = "acquire", !.p = p, !.url = url, !.i = i,
                                      !.force = cmd[p].force,
                                      !.ok = (step = "create"),
                                      !.name = ir.componentName,
                                      !.analyzed = analyzed, !.fate = fate]
    /\ UNCHANGED <<file, lastWriter, inst, components, now, remote, cmd, ops, imported, gen>>

\* the rest of the call once the POST has settled: the record's id, the
\* registry update, the return
CreateResponse(p) ==
    /\ cmd[p].op # "idle"
    /\ \E i \in 1..Len(task[p]), outcome \in CreateOutcomes,
          w \in WriteOutcomes, t \in Clock :
         /\ task[p][i].st = "creating"
         /\ LET tk == task[p][i]
                url == cmd[p].urls[i]
                rec == [id |-> TemplateIdOf(Len(remote) + 1), name |-> tk.tname,
                        tags |-> tk.tags, url |-> url]
                writes == AfterCreate(outcome) = "register"
                tid == IF outcome = "ok" THEN RegisteredTemplateId(rec) ELSE Undefined
                comps == IF writes
                         THEN registerComponent(GetInstance(p), tk.ir.componentName,
                                                tk.ir.path, tid, tk.tags, t)
                         ELSE components[p]
                raised == writes /\ SaveRaises(w)
                ok == writes /\ ~raised
                newFile == IF writes THEN saveRegistry(comps, file, w) ELSE file
            IN  /\ (~writes => (w = "ok" /\ t = now))
                /\ remote' = createTemplate(remote, rec, outcome)
                /\ components' = [components EXCEPT ![p] = comps]
                /\ inst' = [inst EXCEPT ![p] = @ \/ writes]
                /\ file' = newFile
                /\ lastWriter' = IF writes /\ w # "fail" THEN p ELSE lastWriter
                /\ now' = t
                /\ task' = [task EXCEPT ![p][i] =
                              [PendingTask EXCEPT !.st = "done",
                                 !.fate = FateClass(EnvFateOfCreate(outcome))]]
                /\ results' = [results EXCEPT ![p] =
                                 Append(@, IF ok THEN [null |-> FALSE, id |-> rec.id]
                                           ELSE NullResult)]
                /\ ev' = [NoEv EXCEPT !.op = "create", !.p = p, !.url = url, !.i = i,
                                      !.force = cmd[p].force, !.ok = ok,
                                      !.name = tk.ir.componentName,
                                      !.write = IF writes THEN w ELSE "none",
                                      !.raised = raised,
                                      !.fate = EnvFateOfCreate(outcome),
                                      !.ret = IF ok THEN [null |-> FALSE, id |-> rec.id]
                                              ELSE NullResult]
                /\ imported' = ImportedAfter(newFile, FALSE,
                                   IF ok /\ w = "ok" /\ cmd[p].op = "import" /\ ~cmd[p].force
                                   THEN {url} ELSE {})
    /\ UNCHANGED <<cmd, ops, gen>>

\* the command handler after importAndRegister / importAndRegisterBulk has
\* returned: the tally, the exit status, and the end of the process with
\* its singleton
Finish(p) ==
    /\ cmd[p].op # "idle"
    /\ \A i \in 1..Len(task[p]) : task[p][i].st = "done"
    /\ LET successful == Tally(results[p])
       IN  ev' = [NoEv EXCEPT !.op = "exit", !.p = p, !.force = cmd[p].force,
                              !.tally = successful, !.kind = cmd[p].op,
                              !.code = ExitCode(successful, Len(cmd[p].urls))]
    /\ cmd' = [cmd EXCEPT ![p] = IdleCmd]
    /\ inst' = [inst EXCEPT ![p] = FALSE]
    /\ components' = [components EXCEPT ![p] = <<>>]
    /\ UNCHANGED <<file, lastWriter, now, remote, task, results, ops, imported, gen>>

(***************************************************************************)
(* Direct calls of the Registry Store by a host program.                   *)
(***************************************************************************)
Register(p, a) ==
    /\ cmd[p].op = "idle"
    /\ ops < MaxCalls
    /\ \E w \in WriteOutcomes, t \in Clock :
         LET comps == registerComponent(GetInstance(p), a.name, a.path,
                                        a.templateId, a.tags, t)
             newFile == saveRegistry(comps, file, w)
         IN  /\ components' = [components EXCEPT ![p] = comps]
             /\ inst' = [inst EXCEPT ![p] = TRUE]
             /\ file' = newFile
             /\ lastWriter' = IF w # "fail" THEN p ELSE lastWriter
             /\ now' = t
             /\ ev' = [NoEv EXCEPT !.op = "register", !.p = p, !.name = a.name,
                                   !.write = w, !.raised = SaveRaises(w),
                                   !.ok = ~SaveRaises(w),
                                   !.dropped = (w = "ok" /\ NamesIn(file) \ NamesIn(newFile) # {})]
             /\ imported' = ImportedAfter(newFile, FALSE, {})
    /\ ops' = ops + 1
    /\ task' = [task EXCEPT ![p] = <<>>]
    /\ results' = [results EXCEPT ![p] = <<>>]
    /\ UNCHANGED <<remote, cmd, gen>>

Remove(p, name) ==
    /\ cmd[p].op = "idle"
    /\ ops < MaxCalls
    /\ \E w \in WriteOutcomes :
         LET before == GetInstance(p)
             result == MapHas(before, name)
             comps == MapDelete(before, name)
             newFile == IF result THEN saveRegistry(comps, file, w) ELSE file
         IN  /\ (~result => w = "ok")
             /\ components' = [components EXCEPT ![p] = comps]
             /\ inst' = [inst EXCEPT ![p] = TRUE]
             /\ file' = newFile
             /\ lastWriter' = IF result /\ w # "fail" THEN p ELSE lastWriter
             /\ ev' = [NoEv EXCEPT !.op = "remove", !.p = p, !.name = name,
                                   !.write = IF result THEN w ELSE "none",
                                   !.raised = result /\ SaveRaises(w),
                                   !.ok = ~(result /\ SaveRaises(w)),
                                   !.removed = result]
             /\ imported' = ImportedAfter(newFile, result, {})
    /\ ops' = ops + 1
    /\ task' = [task EXCEPT ![p] = <<>>]
    /\ results' = [results EXCEPT ![p] = <<>>]
    /\ UNCHANGED <<now, remote, cmd, gen>>

\* 'list', or a host program's getInstance().getAllComponents(): reads the
\* mapping and changes nothing
List(p) ==
    /\ cmd[p].op = "idle"
    /\ components' = [components EXCEPT ![p] = GetInstance(p)]
    /\ inst' = [inst EXCEPT ![p] = TRUE]
    /\ task' = [task EXCEPT ![p] = <<>>]
    /\ results' = [results EXCEPT ![p] = <<>>]
    /\ ev' = [NoEv EXCEPT !.op = "list", !.p = p, !.first = ~inst[p],
                          !.tally = Len(GetInstance(p))]
    /\ UNCHANGED <<file, lastWriter, now, remote, cmd, ops, imported, gen>>

\* the process ends and a new one starts: the singleton is gone
Restart(p) ==
    /\ cmd[p].op = "idle"
    /\ inst[p]
    /\ inst' = [inst EXCEPT ![p] = FALSE]
    /\ components' = [components EXCEPT ![p] = <<>>]
    /\ task' = [task EXCEPT ![p] = <<>>]
    /\ results' = [results EXCEPT ![p] = <<>>]
    /\ ev' = [NoEv EXCEPT !.op = "restart", !.p = p]
    /\ UNCHANGED <<file, lastWriter, now, remote, cmd, ops, imported, gen>>

(***************************************************************************)
(* The import commands, each a process of its own, one after another on    *)
(* the backing file.                                                       *)
(***************************************************************************)
Init == InitWith(ImportInitFiles)

Next ==
    \/ \E url \in Urls, force \in BOOLEAN : StartImport(1, url, force)
    \/ \E urls \in UrlLists : StartBulk(1, urls)
    \/ \E fault \in BulkInputFaults : RejectBulk(1, fault)
    \/ Acquire(1)
    \/ CreateResponse(1)
    \/ Finish(1)

Spec == Init /\ [][Next]_vars

(***************************************************************************)
(* The Registry Store alone: a host program's calls, one process after     *)
(* another.                                                                *)
(***************************************************************************)
InitStore == InitWith(InitFiles)

NextStore ==
    \/ \E a \in RegisterArgs : Register(1, a)
    \/ \E name \in RegNames : Remove(1, name)
    \/ List(1)
    \/ Restart(1)

SpecStore == InitStore /\ [][NextStore]_vars

(***************************************************************************)
(* The Schema Generator alone: one call of one of its functions.           *)
(***************************************************************************)
Generate(component) ==
    /\ gen.op = "none"
    /\ gen' = [op |-> "generateTemplate", arg |-> component,
               out |-> generateTemplate(component)]
    /\ UNCHANGED <<file, lastWriter, inst, components, now, remote, cmd, task,
                   results, ev, ops, imported>>

MapType(propType) ==
    /\ gen.op = "none"
    /\ gen' = [op |-> "mapPropTypeToFieldType", arg |-> propType,
               out |-> mapPropTypeToFieldType(propType)]
    /\ UNCHANGED <<file, lastWriter, inst, components, now, remote, cmd, task,
                   results, ev, ops, imported>>

FormatName(name) ==
    /\ gen.op = "none"
    /\ gen' = [op |-> "formatPropName", arg |-> name, out |-> formatPropName(name)]
    /\ UNCHANGED <<file, lastWriter, inst, components, now, remote, cmd, task,
                   results, ev, ops, imported>>

InitGen == InitWith({AbsentFile})

NextGen ==
    \/ \E component \in GenComponents : Generate(component)
    \/ \E propType \in TypeTexts : MapType(propType)
    \/ \E name \in PropNames : FormatName(name)

SpecGen == InitGen /\ [][NextGen]_vars

(***************************************************************************)
(* The Source Analyzer alone: one call of analyzeComponent.                *)
(***************************************************************************)
Analyze(f) ==
    /\ gen.op = "none"
    /\ gen' = [op |-> "analyzeComponent", arg |-> f, out |-> analyzeComponent(f)]
    /\ UNCHANGED <<file, lastWriter, inst, components, now, remote, cmd, task,
                   results, ev, ops, imported>>

InitParse == InitWith({AbsentFile})

NextParse == \E f \in ParseFiles : Analyze(f)

SpecParse == InitParse /\ [][NextParse]_vars

(***************************************************************************)
(* Two host processes on one backing file, their calls interleaved.        *)
(***************************************************************************)
InitTwo == InitWith(ImportInitFiles)

\* the names the two processes register: none that the file holds at the start
RegisterArgsTwo == {a \in RegisterArgs : a.name # OldHi.name}

NextTwo ==
    \/ \E p \in Procs, a \in RegisterArgsTwo : Register(p, a)
    \/ \E p \in Procs : List(p)

SpecTwo == InitTwo /\ [][NextTwo]_vars

(***************************************************************************)
(* Properties.                                                             *)
(***************************************************************************)
Fields == {"name", "path", "importedAt", "templateId", "tags"}

\* C1: no unforced import command runs the pipeline (acquisition, analysis,
\* remote create) for an identifier whose earlier unforced import succeeded
\* and was saved: the second command ends at the already-registered check.
C1_SecondImportSkips ==
    (ev.op = "start" /\ ~ev.force) => ev.url \notin imported

\* C2: a bulk run has one result slot per finished call, in input order;
\* slot i is null exactly when the environment failed call i and is
\* otherwise the record the service created for identifier i; while a call
\* is left a next step exists, whatever failed before; the tally the
\* command reports is the number of calls that did not fail.
C2_BatchIsolation ==
    /\ \A p \in Procs :
         cmd[p].op = "bulk" =>
           LET urls == cmd[p].urls
               ts == task[p]
               rs == results[p]
               allDone == \A i \in 1..Len(ts) : ts[i].st = "done"
           IN  /\ Len(ts) = Len(urls)
               /\ Len(rs) = Cardinality({i \in 1..Len(ts) : ts[i].st = "done"})
               /\ \A i \in 1..Len(rs) :
                    /\ ts[i].st = "done"
                    /\ rs[i].null <=> ts[i].fate = "failed"
                    /\ ~rs[i].null =>
                         \E k \in 1..Len(remote) :
                            remote[k].id = rs[i].id /\ remote[k].url = urls[i]
               /\ allDone => Len(rs) = Len(urls)
               /\ ~allDone =>
                    \/ BulkNext(ts) # {}
                    \/ \E i \in 1..Len(ts) : ts[i].st = "creating"
    /\ ev.op = "exit" =>
         /\ ev.tally = Cardinality({i \in 1..Len(task[ev.p]) : task[ev.p][i].fate = "ok"})
         /\ ev.tally = Tally(results[ev.p])

\* three identifiers, the second failed: slots 1 and 3 hold records, slot 2
\* is null, the tally is 2
C2_Witness ==
    /\ ev.op = "exit" /\ ev.tally = 2
    /\ Len(results[1]) = 3
    /\ ~results[1][1].null /\ results[1][2].null /\ ~results[1][3].null
    /\ task[1][2].fate = "failed"

\* C3: a step of importAndRegister at which the environment fails the call
\* (the Acquirer fails or gives no path, the file is unreadable, the POST is
\* answered non-2xx or not at all) pushes null and changes neither any
\* in-memory mapping nor the backing file.
C3_NoPartialWrite ==
    [][ (ev'.op \in {"acquire", "create"} /\ ev'.fate \notin {"none", "ok"}) =>
          /\ ev'.ret.null
          /\ results'[ev'.p] = Append(results[ev'.p], NullResult)
          /\ components' = components
          /\ inst' = inst
          /\ file' = file ]_vars

\* the service answers non-2xx for a re-import while the catalog holds entries
C3_Witness ==
    /\ ev.op = "create" /\ ev.fate = "http"
    /\ components[1] # <<>>
    /\ file.kind = "array" /\ file.elems # <<>>

\* the mapping a fresh store instance reads from the backing file has the
\* entries of mapping m, field by field
SameEntries(fresh, m) ==
    /\ Len(fresh) = Len(m)
    /\ \A i \in 1..Len(m) :
         /\ MapHas(fresh, m[i].key)
         /\ \A f \in Fields :
              FieldOf(MapGet(fresh, m[i].key), f) = FieldOf(m[i].val, f)

\* C4: after a register whose write succeeded, a fresh store that loads the
\* backing file has as many entries as the registering store, and every
\* name gets an entry with the same name, path, importedAt, templateId and
\* tags.
C4_RoundTrip ==
    (ev.op = "register" /\ ev.write = "ok") =>
        SameEntries(loadRegistry(file), components[ev.p])

\* three distinct names registered and saved, one of them with no templateId
C4_Witness ==
    /\ ev.op = "register" /\ ev.write = "ok"
    /\ Len(components[1]) = 3
    /\ \A a \in RegisterArgs : MapHas(components[1], a.name)
    /\ \E i \in 1..3 : FieldOf(components[1][i].val, "templateId") = Undefined
    /\ \E i \in 1..3 : FieldOf(components[1][i].val, "templateId") # Undefined

NamesDistinct(vals) ==
    \A i, j \in 1..Len(vals) :
        i # j => FieldOf(vals[i], "name") # FieldOf(vals[j], "name")

\* C5: in every process's mapping no two entries have the same name and
\* every entry is stored under its own name; no two elements of an array
\* the program wrote to the backing file have the same name.
C5_NameUnique ==
    /\ \A p \in Procs :
         /\ NamesDistinct(MapValues(components[p]))
         /\ \A i \in 1..Len(components[p]) :
              components[p][i].key = FieldOf(components[p][i].val, "name")
    /\ (lastWriter # 0 /\ file.kind = "array") => NamesDistinct(file.elems)

\* a file with two elements of one name was loaded (the later element
\* took the place of the earlier), another name registered and the
\* mapping saved
C5_Witness ==
    /\ ev.op = "register" /\ ev.name = <<"C", "t", "a">> /\ ev.write = "ok"
    /\ lastWriter = 1
    /\ Len(file.elems) = 2
    /\ file.elems[1] = OldHiNoId
    /\ FieldOf(file.elems[2], "name") = <<"C", "t", "a">>

\* C6: after a successful import of an identifier the already-registered
\* check of that identifier is true.
C6_NamingConsistent ==
    (ev.op = "create" /\ ev.ok) => isComponentRegistered(ev.url, components[ev.p])

\* C7: a step of importAndRegister changes a mapping or the backing file
\* only when it is the step at which the POST returned its record, and the
\* entry then stored has the id of that record, created for this identifier.
C7_RegisterAfterCreate ==
    [][ (ev'.op \in {"acquire", "create"} /\ (components' # components \/ file' # file)) =>
          /\ ev'.op = "create" /\ ev'.fate = "ok"
          /\ Len(remote') = Len(remote) + 1
          /\ remote'[Len(remote')].url = ev'.url
          /\ MapHas(components'[ev'.p], ev'.name)
          /\ FieldOf(MapGet(components'[ev'.p], ev'.name), "templateId")
               = remote'[Len(remote')].id
          /\ ev'.ret = [null |-> FALSE, id |-> remote'[Len(remote')].id] ]_vars

\* the second record the service created is the one the entry refers to
C7_Witness ==
    /\ ev.op = "create" /\ ev.ok
    /\ Len(remote) = 2
    /\ FieldOf(MapGet(components[1], ev.name), "templateId") = TemplateIdOf(2)

\* C8: a forced import of an identifier whose name is registered leaves,
\* when it succeeds, as many entries as before, the entry of that name with
\* the path, id and time of this import, and every other entry as it was.
C8_ForcedOverwritesInPlace ==
    [][ (/\ ev'.op = "create" /\ ev'.ok
         /\ cmd[ev'.p].op = "import" /\ cmd[ev'.p].force
         /\ isComponentRegistered(ev'.url, GetInstance(ev'.p))) =>
          LET before == GetInstance(ev'.p)
              after == components'[ev'.p]
              name == RegisteredNameOf(ev'.url)
          IN  /\ Len(after) = Len(before)
              /\ FieldOf(MapGet(after, name), "templateId") = ev'.ret.id
              /\ FieldOf(MapGet(after, name), "importedAt") = ToISOString(now')
              /\ \A i \in 1..Len(before) :
                   before[i].key # name => MapGet(after, before[i].key) = before[i].val
      ]_vars

\* C9: in every process a call of the loop is started only once every
\* earlier call has returned, so at most one call is between its start and
\* its return.
C9_Sequential ==
    \A p \in Procs :
        /\ \A i \in 1..Len(task[p]) :
             task[p][i].st # "pending" =>
                \A j \in 1..(i - 1) : task[p][j].st = "done"
        /\ Cardinality({i \in 1..Len(task[p]) : task[p][i].st = "creating"}) <= 1

\* the first call of a batch has returned and written the registry, the
\* second awaits the service, the third has not started
C9_Witness ==
    /\ cmd[1].op = "bulk" /\ Len(task[1]) = 3
    /\ task[1][1].st = "done" /\ task[1][1].fate = "ok"
    /\ task[1][2].st = "creating"
    /\ task[1][3].st = "pending"
    /\ lastWriter = 1

\* C10: a register or remove whose write of the backing file failed does
\* not raise, returns normally, and the mapping has the new entry (the
\* removed name no longer).
C10_BestEffort ==
    (ev.op \in {"register", "remove"} /\ ev.write \in {"fail", "torn"}) =>
        /\ ~ev.raised
        /\ ev.ok
        /\ ev.op = "register" =>
             /\ MapHas(components[ev.p], ev.name)
             /\ FieldOf(MapGet(components[ev.p], ev.name), "importedAt") = ToISOString(now)
        /\ ev.op = "remove" => (ev.removed /\ ~MapHas(components[ev.p], ev.name))

\* the write of a register failed: the mapping has the entry, the file
\* does not
C10_Witness ==
    /\ ev.op = "register" /\ ev.write = "fail"
    /\ MapHas(components[1], ev.name)
    /\ ~MapHas(loadRegistry(file), ev.name)

\* an element of the array that is an entry object
EntryObject(v) == "json" \notin DOMAIN v /\ "name" \in DOMAIN v

ArrayOfEntries(f) ==
    f.kind = "array" /\ \A i \in 1..Len(f.elems) : EntryObject(f.elems[i])

\* C11: when the backing file is absent, unreadable, not valid JSON, not an
\* array, or an array with an element that is not an entry object, the first
\* access of a store does not raise and the store's mapping is empty.
C11_LoadMalformedEmpty ==
    (ev.op = "list" /\ ev.first /\ ~ArrayOfEntries(file)) =>
        (~ev.raised /\ components[ev.p] = <<>>)

\* C12: a register of a name with a path, templateId and tags leaves the
\* name in the mapping with an entry of that name, path and templateId,
\* importedAt the time of the call and tags the supplied tags followed by
\* 'shadcn'; an existing name keeps its place and a new one adds one entry;
\* every entry under another name is as it was; and when the write succeeds
\* the backing file is the array of all entries of the mapping, in order.
C12_RegisterSemantics ==
    [][ \A a \in RegisterArgs :
          (ev'.op = "register" /\ ev'.name = a.name /\ Register(1, a)) =>
            LET before == GetInstance(1)
                after == components'[1]
                e == MapGet(after, a.name)
            IN  /\ MapHas(after, a.name)
                /\ e.name = a.name
                /\ e.path = a.path
                /\ FieldOf(e, "templateId") = a.templateId
                /\ e.importedAt = ToISOString(now')
                /\ e.tags = a.tags \o <<ShadcnTag>>
                /\ Len(after) = Len(before) + (IF MapHas(before, a.name) THEN 0 ELSE 1)
                /\ \A i \in 1..Len(before) :
                     before[i].key # a.name => after[i] = before[i]
                /\ ev'.write = "ok" =>
                     /\ file'.kind = "array"
                     /\ Len(file'.elems) = Len(after)
                     /\ \A i \in 1..Len(after) : \A f \in Fields :
                          FieldOf(file'.elems[i], f) = FieldOf(after[i].val, f) ]_vars

\* 'Hi' was registered before 'Cta' and is registered again later with tags:
\* it keeps the first place with the new time, 'Cta' is as it was, and the
\* file holds both
C12_Witness ==
    /\ ev.op = "register" /\ ev.name = <<"H", "i">> /\ ev.write = "ok"
    /\ Len(components[1]) = 2
    /\ components[1][1].key = <<"H", "i">>
    /\ components[1][1].val.importedAt = ToISOString(1)
    /\ components[1][1].val.tags = <<ComponentTag, ShadcnTag>>
    /\ components[1][2].val = NewEntry(<<"C", "t", "a">>, PathOf(UrlCta), TemplateIdOf(0), <<>>, 0)
    /\ Len(file.elems) = 2

\* C13: after a register whose write succeeded, the backing file holds the
\* writing process's mapping and nothing else: its names in its order, and
\* no name that only the other process's mapping has.
C13_LastWriterWins ==
    (ev.op = "register" /\ ev.write = "ok") =>
        LET mine == components[ev.p]
        IN  /\ file.kind = "array"
            /\ Len(file.elems) = Len(mine)
            /\ \A i \in 1..Len(mine) :
                 /\ FieldOf(file.elems[i], "name") = mine[i].key
                 /\ \A f \in Fields :
                      FieldOf(file.elems[i], f) = FieldOf(mine[i].val, f)
            /\ \A q \in Procs \ {ev.p} : \A j \in 1..Len(components[q]) :
                 ~MapHas(mine, components[q][j].key) =>
                     components[q][j].key \notin NamesIn(file)

\* both processes have loaded the catalog, process 1 registered 'S' and
\* wrote it, then process 2 registered 'Cta': its write dropped 'S' from
\* the file
C13_Witness ==
    /\ ev.op = "register" /\ ev.p = 2 /\ ev.write = "ok" /\ ev.dropped
    /\ ev.name = <<"C", "t", "a">>
    /\ inst[1] /\ inst[2]
    /\ MapHas(components[1], <<"S">>)
    /\ ~MapHas(components[2], <<"S">>)
    /\ <<"S">> \notin NamesIn(file)
    /\ <<"C", "t", "a">> \in NamesIn(file)

\* C14: a bulk command that imported a list exits with a non-zero status
\* exactly when some result slot is null, has one slot per identifier, and
\* reports as its tally the number of slots that hold a record; a bulk
\* command that rejected its input file exits with a non-zero status.
C14_BulkExitStatus ==
    /\ (ev.op = "exit" /\ ev.kind = "bulk") =>
          LET rs == results[ev.p]
              records == {i \in 1..Len(rs) : rs[i] # NullResult}
          IN  /\ Len(rs) = Len(task[ev.p])
              /\ (ev.code # 0) <=> (\E i \in 1..Len(rs) : rs[i] = NullResult)
              /\ (records = 1..Len(rs)) => ev.code = 0
              /\ ev.tally = Cardinality(records)
    /\ ev.op = "reject" => ev.code # 0

\* a list of three whose last import failed: status 1, tally 2
C14_Witness ==
    /\ ev.op = "exit" /\ ev.kind = "bulk" /\ ev.code = 1 /\ ev.tally = 2
    /\ Len(results[1]) = 3
    /\ results[1][1] # NullResult /\ results[1][2] # NullResult
    /\ results[1][3] = NullResult

\* the fields of the template the last generateTemplate call returned
GenFields == gen.out.sections[1].fields

ContentId == <<"c", "o", "n", "t", "e", "n", "t">>

\* C15: a template generated for a component that accepts children has one
\* field more than the component has properties, and its last field has id
\* 'content', type RichText and required = false; a template generated for
\* a component that does not has as many fields as properties, and a field
\* with id 'content' only where a property of that name is declared.
C15_NestedContentLast ==
    gen.op = "generateTemplate" =>
        LET c == gen.arg
            n == Len(c.props)
        IN  /\ c.hasChildren =>
                 /\ Len(GenFields) = n + 1
                 /\ GenFields[n + 1].id = ContentId
                 /\ GenFields[n + 1].type = "RichText"
                 /\ GenFields[n + 1].validation.required = FALSE
            /\ ~c.hasChildren =>
                 /\ Len(GenFields) = n
                 /\ \A i \in 1..n :
                      GenFields[i].id = ContentId => c.props[i].name = ContentId

\* two required properties and children: the third field is the content field
C15_Witness ==
    /\ gen.op = "generateTemplate" /\ gen.arg.hasChildren
    /\ Len(gen.arg.props) = 2
    /\ \A i \in 1..2 : gen.arg.props[i].required
    /\ Len(GenFields) = 3
    /\ GenFields[3].id = ContentId /\ ~GenFields[3].validation.required

\* C16: in a generated template the field of a property whose name contains
\* 'image', 'img' or 'picture' (in any case) has type Image, and otherwise
\* the field of a property whose name contains 'url', 'link' or 'href' has
\* type URL, whatever the declared type.
C16_NameHintOverrides ==
    gen.op = "generateTemplate" =>
        \A i \in 1..Len(gen.arg.props) :
            LET lower == toLowerCase(gen.arg.props[i].name)
            IN  IF \E h \in ImageHints : includes(lower, h)
                THEN GenFields[i].type = "Image"
                ELSE (\E h \in UrlHints : includes(lower, h)) =>
                        GenFields[i].type = "URL"

\* C17: a type text that is a key of the table, alone or followed by further
\* union alternatives, maps to the field type the table gives for that key;
\* any other type text maps to Text.
C17_TypeMappingTable ==
    gen.op = "mapPropTypeToFieldType" =>
        IF \E k \in 1..Len(typeMap), u \in UnionSuffixes : gen.arg = typeMap[k].key \o u
        THEN \A k \in 1..Len(typeMap), u \in UnionSuffixes :
                gen.arg = typeMap[k].key \o u => gen.out = typeMap[k].val
        ELSE gen.out = "Text"

Digits == {"0", "1", "2", "3", "4", "5", "6", "7", "8", "9"}

\* a lower-case letter followed by letters and digits
IsCamelCase(name) ==
    /\ name # <<>>
    /\ IsLetter(name[1]) /\ ~IsUpper(name[1])
    /\ \A k \in 1..Len(name) : IsLetter(name[k]) \/ name[k] \in Digits

\* the words of an identifier: a new word starts at each capital letter
WordsOf(name) ==
    LET F[n \in 0..Len(name)] ==
            IF n = 0 THEN <<>>
            ELSE IF n = 1 \/ IsUpper(name[n]) THEN Append(F[n - 1], <<name[n]>>)
            ELSE [F[n - 1] EXCEPT ![Len(F[n - 1])] = Append(@, name[n])]
    IN  F[Len(name)]

\* the words, one space between neighbours
JoinWords(ws) ==
    LET F[n \in 0..Len(ws)] ==
            IF n = 0 THEN <<>>
            ELSE IF n = 1 THEN ws[1]
            ELSE F[n - 1] \o <<" ">> \o ws[n]
    IN  F[Len(ws)]

\* C18: the display name of a camelCase identifier is its words (split
\* before each capital letter) joined by single spaces with the first
\* character capitalised; it neither starts nor ends with a space;
\* featuredImage gives 'Featured Image' and id gives 'Id'.
C18_DisplayName ==
    (gen.op = "formatPropName" /\ IsCamelCase(gen.arg)) =>
        /\ gen.out = Capitalize(JoinWords(WordsOf(gen.arg)))
        /\ IsUpper(gen.out[1])
        /\ gen.out[Len(gen.out)] # " "
        /\ \A k \in 1..(Len(gen.out) - 1) : ~(gen.out[k] = " " /\ gen.out[k + 1] = " ")
        /\ gen.arg = <<"f", "e", "a", "t", "u", "r", "e", "d", "I", "m", "a", "g", "e">> =>
             gen.out = <<"F", "e", "a", "t", "u", "r", "e", "d", " ", "I", "m", "a", "g", "e">>
        /\ gen.arg = <<"i", "d">> => gen.out = <<"I", "d">>

\* featuredImageUrl: three words
C18_Witness ==
    /\ gen.op = "formatPropName"
    /\ gen.arg = <<"f", "e", "a", "t", "u", "r", "e", "d", "I", "m", "a", "g", "e", "U", "r", "l">>
    /\ gen.out = <<"F", "e", "a", "t", "u", "r", "e", "d", " ", "I", "m", "a", "g", "e", " ", "U", "r", "l">>

\* the names the searchable rule lists
LiteralSearchable ==
    {<<"t", "i", "t", "l", "e">>, <<"h", "e", "a", "d", "i", "n", "g">>,
     <<"t", "e", "x", "t">>}

\* C19 as stated: in a generated template a field is searchable exactly
\* when its id is 'title', 'heading' or 'text'; every other field, the
\* content field included, is not.
C19_SearchableOnlyNamed ==
    gen.op = "generateTemplate" =>
        \A i \in 1..Len(GenFields) :
            GenFields[i].is_searchable <=> GenFields[i].id \in LiteralSearchable

\* C19 amended: the field of a declared property is searchable exactly when
\* the property's name is 'title', 'heading' or 'text'; the content field
\* appended for a component that accepts children is searchable.
C19_SearchableDeclared ==
    gen.op = "generateTemplate" =>
        LET n == Len(gen.arg.props)
        IN  /\ \A i \in 1..n :
                 GenFields[i].is_searchable <=> gen.arg.props[i].name \in LiteralSearchable
            /\ gen.arg.hasChildren => GenFields[n + 1].is_searchable

\* 'title' and 'heroImage' declared, children accepted: the first and the
\* content field are searchable, the second is not
C19_Witness ==
    /\ gen.op = "generateTemplate" /\ gen.arg.hasChildren
    /\ Len(gen.arg.props) = 2
    /\ gen.arg.props[1].name = <<"t", "i", "t", "l", "e">>
    /\ gen.arg.props[2].name = <<"h", "e", "r", "o", "I", "m", "a", "g", "e">>
    /\ GenFields[1].is_searchable /\ ~GenFields[2].is_searchable
    /\ GenFields[3].is_searchable

\* C20: a generated template has one field per declared property, in
\* declaration order, field i with the name of property i as its id and
\* order i (from zero), and no further field but the content field; with
\* the content field the order values are 0..n, each once.
C20_FieldOrder ==
    gen.op = "generateTemplate" =>
        LET c == gen.arg
            n == Len(c.props)
        IN  /\ Len(GenFields) = n + (IF c.hasChildren THEN 1 ELSE 0)
            /\ \A i \in 1..n :
                 GenFields[i].id = c.props[i].name /\ GenFields[i].order = i - 1
            /\ c.hasChildren =>
                 /\ {GenFields[i].order : i \in 1..Len(GenFields)} = 0..n
                 /\ \A i, j \in 1..Len(GenFields) :
                      i # j => GenFields[i].order # GenFields[j].order

\* 'ctaLink' declared before 'heroImage', children accepted: orders 0, 1, 2
C20_Witness ==
    /\ gen.op = "generateTemplate" /\ gen.arg.hasChildren
    /\ Len(GenFields) = 3
    /\ GenFields[1].id = <<"c", "t", "a", "L", "i", "n", "k">> /\ GenFields[1].order = 0
    /\ GenFields[2].id = <<"h", "e", "r", "o", "I", "m", "a", "g", "e">> /\ GenFields[2].order = 1
    /\ GenFields[3].order = 2

\* the call of the Source Analyzer a state records
Analyzed == gen.op = "analyzeComponent"

\* the positions of the file's properties shapes: the top-level interfaces
\* whose name ends in 'Props'
ShapesOf(decls) ==
    {i \in 1..Len(decls) :
        decls[i].kind = "interface" /\ endsWith(decls[i].name, PropsSuffix)}

\* the positions of the file's function-like declarations: the named
\* functions and the variables bound to a function expression
FunctionLikesOf(decls) ==
    {i \in 1..Len(decls) :
        \/ decls[i].kind = "function"
        \/ decls[i].kind = "variable" /\ decls[i].fn}

IsFunctionLike(d) == d.kind = "function" \/ (d.kind = "variable" /\ d.fn)
IsNotFunctionLike(d) == ~IsFunctionLike(d)

\* name, type and requiredness of each property, in order
Signature(props) ==
    [i \in 1..Len(props) |->
        [name |-> props[i].name, type |-> props[i].type,
         required |-> props[i].required]]

\* C21: for a source file with both a properties shape and a function-like
\* declaration, the name and the properties of the description are those
\* of the same file without its function-like declarations.
C21_ShapePrecedence ==
    (/\ Analyzed
     /\ ShapesOf(gen.arg.decls) # {}
     /\ FunctionLikesOf(gen.arg.decls) # {})
    => LET shapeOnly == analyzeComponent(
                           [gen.arg EXCEPT
                              !.decls = SelectSeq(@, IsNotFunctionLike)])
       IN  /\ gen.out.name = shapeOnly.name
           /\ gen.out.props = shapeOnly.props

\* C22: for a source file without function-like declarations, when exactly
\* one top-level interface has a name ending in 'Props' the description's
\* name is that name without the suffix and its properties are the
\* property members of that one declaration; when none has, the
\* description has no properties.
C22_ShapeSelection ==
    (Analyzed /\ FunctionLikesOf(gen.arg.decls) = {})
    => LET decls == gen.arg.decls
           shapes == ShapesOf(decls)
       IN  /\ Cardinality(shapes) = 1
                => LET d == decls[CHOOSE i \in shapes : TRUE]
                   IN  /\ gen.out.name = SubSeq(d.name, 1, Len(d.name) - Len(PropsSuffix))
                       /\ gen.out.props = MemberProps(d.members, TRUE)
           /\ shapes = {} => gen.out.props = <<>>

\* C23: for a source file with no interface whose name contains 'Props',
\* one function-like declaration whose first parameter has a bare type
\* name, and one top-level interface or type alias of exactly that name,
\* the description's properties are the property members of that
\* declaration.
C23_FallbackByTypeName ==
    Analyzed
    => LET decls == gen.arg.decls
           fns == FunctionLikesOf(decls)
       IN  (/\ \A i \in 1..Len(decls) :
                   decls[i].kind = "interface" => ~includes(decls[i].name, PropsSuffix)
            /\ Cardinality(fns) = 1)
           => LET fn == decls[CHOOSE i \in fns : TRUE]
                  named == {i \in 1..Len(decls) :
                              /\ decls[i].kind \in {"interface", "alias"}
                              /\ decls[i].name = fn.param.typeName}
              IN  (fn.param.kind = "ref" /\ Cardinality(named) = 1)
                  => Signature(gen.out.props)
                       = Signature(MemberProps(decls[CHOOSE i \in named : TRUE].members, TRUE))

\* C24: removeComponent(name) on a mapping that has the name returns true,
\* leaves the other entries as they were and in their order, and calls
\* saveRegistry, after which (the write succeeding) the file holds the
\* remaining entries; on a mapping without the name it returns false,
\* leaves the mapping as it was and does not write.
C24_RemoveSemantics ==
    [][\A name \in RegNames :
         (ev'.op = "remove" /\ ev'.name = name) =>
            LET p == ev'.p
                before == GetInstance(p)
                after == components'[p]
            IN  IF MapHas(before, name)
                THEN /\ ev'.removed
                     /\ ~MapHas(after, name)
                     /\ after = SelectSeq(before, LAMBDA e : e.key # name)
                     /\ Len(after) = Len(before) - 1
                     /\ ev'.write \in WriteOutcomes
                     /\ ev'.write = "ok" =>
                            /\ file'.kind = "array"
                            /\ loadRegistry(file') = loadRegistry(StringifyRegistry(after))
                            /\ name \notin NamesIn(file')
                ELSE /\ ~ev'.removed
                     /\ after = before
                     /\ ev'.write = "none"
                     /\ file' = file]_vars

\* one of two registered names was removed and the other saved
C24_Witness ==
    /\ ev.op = "remove" /\ ev.removed /\ ev.write = "ok"
    /\ Len(components[1]) = 1
    /\ file.kind = "array" /\ Len(file.elems) = 1
    /\ FieldOf(file.elems[1], "name") = components[1][1].key
    /\ components[1][1].key # ev.name

\* C25: after a register, and after a remove that removed an entry, whose
\* write succeeded, the backing file is an array with one element per entry
\* of the mapping, in the mapping's order, each with the entry's name,
\* path, importedAt, templateId and tags; every element's name is a key of
\* the mapping.
C25_FileMirrorsMapping ==
    (/\ ev.op = "register" \/ (ev.op = "remove" /\ ev.removed)
     /\ ev.write = "ok")
    => LET m == components[ev.p]
       IN  /\ file.kind = "array"
           /\ Len(file.elems) = Len(m)
           /\ \A i \in 1..Len(m) :
                \A f \in Fields : FieldOf(file.elems[i], f) = FieldOf(m[i].val, f)
           /\ \A i \in 1..Len(file.elems) :
                MapHas(m, FieldOf(file.elems[i], "name"))

\* a remove that left two entries, both in the file
C25_Witness ==
    /\ ev.op = "remove" /\ ev.removed /\ ev.write = "ok"
    /\ Len(components[1]) = 2 /\ Len(file.elems) = 2
    /\ FieldOf(file.elems[1], "name") # FieldOf(file.elems[2], "name")

\* the last step was the end of an importAndRegister call whose POST
\* returned the record and whose registry write failed
WriteFailedAfterCreate ==
    ev.op = "create" /\ ev.fate = "ok" /\ ev.write \in {"fail", "torn"}

\* C26, as stated: when the write of the registry fails after the remote
\* create succeeded, importAndRegister returns the record, the mapping has
\* the entry, the backing file has no entry of that name, and a process
\* that loads the file does not find the identifier registered.
C26_FailedWriteUnseen ==
    WriteFailedAfterCreate =>
        /\ ~ev.ret.null
        /\ MapHas(components[ev.p], ev.name)
        /\ ~MapHas(loadRegistry(file), ev.name)
        /\ ~isComponentRegistered(ev.url, loadRegistry(file))

\* C26, amended: when the write of the registry fails after the remote
\* create succeeded, importAndRegister returns the record the service
\* created, the mapping has an entry of the component's name with the
\* record's id, and no entry a process loads from the backing file has that
\* id; after a write that truncated the file such a process loads nothing.
C26_FailedWriteNewEntryUnseen ==
    WriteFailedAfterCreate =>
        /\ ~ev.ret.null
        /\ ev.ret.id = remote[Len(remote)].id
        /\ MapHas(components[ev.p], ev.name)
        /\ FieldOf(MapGet(components[ev.p], ev.name), "templateId") = ev.ret.id
        /\ \A i \in 1..Len(loadRegistry(file)) :
              FieldOf(loadRegistry(file)[i].val, "templateId") # ev.ret.id
        /\ ev.write = "torn" => loadRegistry(file) = <<>>

\* a forced import whose write failed before touching the file: the file
\* keeps the entry of an earlier run, with the earlier template id
C26_Witness ==
    /\ WriteFailedAfterCreate /\ ev.write = "fail" /\ ev.force
    /\ ~ev.ret.null
    /\ isComponentRegistered(ev.url, loadRegistry(file))
    /\ FieldOf(MapGet(components[ev.p], ev.name), "templateId") = ev.ret.id
    /\ FieldOf(MapGet(loadRegistry(file), ev.name), "templateId") = TemplateIdOf(0)

\* C27: when the external tool ran without error and its output has no
\* destination path, the call ends with null: the file is not analyzed, no
\* POST is pending for the identifier, the remote service, the mapping and
\* the backing file are as before.
C27_NoPathEndsCall ==
    [][(ev'.op = "acquire" /\ ev'.fate = "nopath") =>
          LET p == ev'.p
              i == ev'.i
          IN  /\ ~ev'.analyzed
              /\ ~ev'.ok
              /\ task'[p][i].st = "done"
              /\ results'[p] = Append(results[p], NullResult)
              /\ remote' = remote
              /\ components' = components
              /\ file' = file /\ lastWriter' = lastWriter]_vars

\* the tool printed 'Added Hi component to' with no path after it
C27_Witness ==
    /\ ev.op = "acquire" /\ ev.fate = "nopath"
    /\ ev.name = RegisteredNameOf(UrlHi1)
    /\ results[ev.p] # <<>> /\ results[ev.p][Len(results[ev.p])] = NullResult
    /\ remote = <<>>

\* the records the service holds for an identifier
RecordsFor(records, url) == {k \in 1..Len(records) : records[k].url = url}

\* C28: the records of the remote service only grow, by one record at the
\* end per POST that reached it, and no record is changed or removed; an
\* import that succeeds adds exactly one record for its identifier, with
\* an id no earlier record has, and the registry entry then has that id.
C28_CreateOnly ==
    [][/\ Len(remote') >= Len(remote)
       /\ Len(remote') <= Len(remote) + 1
       /\ SubSeq(remote', 1, Len(remote)) = remote
       /\ (ev'.op = "create" /\ ev'.ok) =>
             LET new == remote'[Len(remote')]
             IN  /\ Len(remote') = Len(remote) + 1
                 /\ new.url = ev'.url
                 /\ Cardinality(RecordsFor(remote', ev'.url))
                      = Cardinality(RecordsFor(remote, ev'.url)) + 1
                 /\ \A k \in 1..Len(remote) : remote[k].id # new.id
                 /\ ev'.ret.id = new.id
                 /\ FieldOf(MapGet(components'[ev'.p], ev'.name), "templateId") = new.id
      ]_vars

\* the second successful import of an identifier, forced: the service holds
\* two records for it and the entry refers to the second
C28_Witness ==
    /\ ev.op = "create" /\ ev.ok /\ ev.force
    /\ Len(remote) = 2
    /\ RecordsFor(remote, ev.url) = {1, 2}
    /\ remote[1].id = TemplateIdOf(1) /\ remote[2].id = TemplateIdOf(2)
    /\ Len(components[ev.p]) = 1
    /\ FieldOf(MapGet(components[ev.p], ev.name), "templateId") = TemplateIdOf(2)

\* C29: in a template generated for a component whose properties have
\* pairwise distinct names, the ids of the fields are pairwise distinct.
C29_FieldIdsDistinct ==
    (/\ gen.op = "generateTemplate"
     /\ \A i, j \in 1..Len(gen.arg.props) :
           i # j => gen.arg.props[i].name # gen.arg.props[j].name)
    => \A i, j \in 1..Len(GenFields) : i # j => GenFields[i].id # GenFields[j].id

\* how often a tag occurs in a list of tags
Occurrences(tags, tag) == Cardinality({k \in 1..Len(tags) : tags[k] = tag})

====
